---- MODULE Spec2Model ----
(***************************************************************************)
(* Request gate of fm-backend: src/middleware.ts.                          *)
(*                                                                         *)
(* middleware(request) classifies the request path, enforces HTTPS in      *)
(* production, reads the principal from the 'user' cookie and checks the   *)
(* role on admin paths.  config.matcher decides for which paths the        *)
(* framework calls middleware() at all.                                    *)
(*                                                                         *)
(* Strings are TLA+ strings; startsWith, includes and toLowerCase are      *)
(* computed character by character, and JSON.parse is a recursive-descent  *)
(* parser over the text of the cookie.                                     *)
(***************************************************************************)
EXTENDS Integers, Sequences, FiniteSets, TLC

VARIABLES NODE_ENV, request, pc, result

vars == <<NODE_ENV, request, pc, result>>

\* Longest run of extra characters appended to a base path.
MaxSuffix == 1

(***************************************************************************)
(* String primitives (String.prototype.startsWith / includes /             *)
(* toLowerCase).                                                           *)
(***************************************************************************)
Ch(s, i) == IF i >= 1 /\ i <= Len(s) THEN SubSeq(s, i, i) ELSE ""

At(s, i, lit) == i >= 1 /\ i + Len(lit) - 1 <= Len(s) /\ SubSeq(s, i, i + Len(lit) - 1) = lit

startsWith(s, prefix) == At(s, 1, prefix)

includes(s, sub) == \E i \in 1..(Len(s) - Len(sub) + 1) : At(s, i, sub)

UpperCase == "ABCDEFGHIJKLMNOPQRSTUVWXYZ"

LowerCase == "abcdefghijklmnopqrstuvwxyz"

lowerChar(c) ==
    IF \E k \in 1..Len(UpperCase) : Ch(UpperCase, k) = c
    THEN Ch(LowerCase, CHOOSE k \in 1..Len(UpperCase) : Ch(UpperCase, k) = c)
    ELSE c

RECURSIVE toLowerCase(_)
toLowerCase(s) ==
    IF s = "" THEN "" ELSE lowerChar(Ch(s, 1)) \o toLowerCase(SubSeq(s, 2, Len(s)))

(***************************************************************************)
(* JavaScript values produced by JSON.parse, tagged by type.               *)
(***************************************************************************)
Undefined == [t |-> "undefined"]

JNull == [t |-> "null"]

JBool(b) == [t |-> "boolean", b |-> b]

JNum(n) == [t |-> "number", n |-> n]

JStr(s) == [t |-> "string", s |-> s]

JArr(a) == [t |-> "array", a |-> a]

\* m is the sequence of <<key, value>> members in source order.
JObj(m) == [t |-> "object", m |-> m]

\* !v is false
Truthy(v) ==
    CASE v.t = "undefined" -> FALSE
      [] v.t = "null" -> FALSE
      [] v.t = "boolean" -> v.b
      [] v.t = "number" -> v.n # 0
      [] v.t = "string" -> v.s # ""
      [] OTHER -> TRUE

\* v.key for a non-nullish v: the last member of that name of an object,
\* undefined on any other value.
GetProp(v, key) ==
    IF v.t = "object" /\ \E k \in 1..Len(v.m) : v.m[k][1] = key
    THEN LET last == CHOOSE k \in 1..Len(v.m) :
                        /\ v.m[k][1] = key
                        /\ \A j \in (k + 1)..Len(v.m) : v.m[j][1] # key
         IN v.m[last][2]
    ELSE Undefined

(***************************************************************************)
(* JSON.parse.  The grammar covers the literals, integers, strings without *)
(* escape sequences, arrays and objects, with spaces between tokens.  A    *)
(* text outside the grammar is a SyntaxError ([ok |-> FALSE]).             *)
(***************************************************************************)
Digits == "0123456789"

IsDigit(c) == \E d \in 1..Len(Digits) : Ch(Digits, d) = c

DigitVal(c) == (CHOOSE d \in 1..Len(Digits) : Ch(Digits, d) = c) - 1

SyntaxError == [ok |-> FALSE]

Parsed(v, i) == [ok |-> TRUE, val |-> v, pos |-> i]

RECURSIVE skipWs(_, _)
skipWs(s, i) == IF Ch(s, i) = " " THEN skipWs(s, i + 1) ELSE i

RECURSIVE digitsEnd(_, _)
digitsEnd(s, i) == IF IsDigit(Ch(s, i)) THEN digitsEnd(s, i + 1) ELSE i

RECURSIVE digitsVal(_, _, _, _)
digitsVal(s, i, j, acc) ==
    IF i >= j THEN acc ELSE digitsVal(s, i + 1, j, acc * 10 + DigitVal(Ch(s, i)))

parseNumber(s, i) ==
    LET neg == Ch(s, i) = "-"
        b == IF neg THEN i + 1 ELSE i
        e == digitsEnd(s, b)
    IN  IF e = b THEN SyntaxError
        ELSE IF Ch(s, b) = "0" /\ e > b + 1 THEN SyntaxError
        ELSE IF Ch(s, e) \in {".", "e", "E"} THEN SyntaxError
        ELSE Parsed(JNum(IF neg THEN 0 - digitsVal(s, b, e, 0) ELSE digitsVal(s, b, e, 0)), e)

RECURSIVE stringEnd(_, _)
stringEnd(s, i) ==
    IF i > Len(s) THEN 0
    ELSE IF Ch(s, i) = "\"" THEN i
    ELSE IF Ch(s, i) = "\\" THEN 0
    ELSE stringEnd(s, i + 1)

\* Ch(s, i) is the opening quote.
parseString(s, i) ==
    LET e == stringEnd(s, i + 1)
    IN  IF e = 0 THEN SyntaxError ELSE Parsed(JStr(SubSeq(s, i + 1, e - 1)), e + 1)

RECURSIVE parseValue(_, _)
RECURSIVE parseElements(_, _, _)
RECURSIVE parseMembers(_, _, _)

parseValue(s, i0) ==
    LET i == skipWs(s, i0)
        c == Ch(s, i)
    IN  CASE c = "{" ->
               LET j == skipWs(s, i + 1)
               IN  IF Ch(s, j) = "}" THEN Parsed(JObj(<<>>), j + 1)
                   ELSE parseMembers(s, j, <<>>)
          [] c = "[" ->
               LET j == skipWs(s, i + 1)
               IN  IF Ch(s, j) = "]" THEN Parsed(JArr(<<>>), j + 1)
                   ELSE parseElements(s, j, <<>>)
          [] c = "\"" -> parseString(s, i)
          [] c = "-" \/ IsDigit(c) -> parseNumber(s, i)
          [] At(s, i, "true") -> Parsed(JBool(TRUE), i + 4)
          [] At(s, i, "false") -> Parsed(JBool(FALSE), i + 5)
          [] At(s, i, "null") -> Parsed(JNull, i + 4)
          [] OTHER -> SyntaxError

parseElements(s, i, acc) ==
    LET v == parseValue(s, i)
    IN  IF ~v.ok THEN SyntaxError
        ELSE LET k == skipWs(s, v.pos)
             IN  IF Ch(s, k) = "," THEN parseElements(s, k + 1, Append(acc, v.val))
                 ELSE IF Ch(s, k) = "]" THEN Parsed(JArr(Append(acc, v.val)), k + 1)
                 ELSE SyntaxError

parseMembers(s, i0, acc) ==
    LET i == skipWs(s, i0)
    IN  IF Ch(s, i) # "\"" THEN SyntaxError
        ELSE LET key == parseString(s, i)
             IN  IF ~key.ok THEN SyntaxError
                 ELSE LET c == skipWs(s, key.pos)
                      IN  IF Ch(s, c) # ":" THEN SyntaxError
                          ELSE LET v == parseValue(s, c + 1)
                               IN  IF ~v.ok THEN SyntaxError
                                   ELSE LET k == skipWs(s, v.pos)
                                            m == Append(acc, <<key.val.s, v.val>>)
                                        IN  IF Ch(s, k) = "," THEN parseMembers(s, k + 1, m)
                                            ELSE IF Ch(s, k) = "}" THEN Parsed(JObj(m), k + 1)
                                            ELSE SyntaxError

JSONParse(text) ==
    LET v == parseValue(text, 1)
    IN  IF v.ok /\ skipWs(text, v.pos) = Len(text) + 1
        THEN [ok |-> TRUE, val |-> v.val]
        ELSE SyntaxError

(***************************************************************************)
(* URLSearchParams serialisation (application/x-www-form-urlencoded) of a  *)
(* value, as done by loginUrl.searchParams.set: letters, digits and        *)
(* "*-._" stay, a space becomes "+", every other ASCII character becomes   *)
(* its percent-encoded byte.                                               *)
(***************************************************************************)
Reserved == "!\"#$%&'()+,/:;<=>?@[\\]^{|}~"

ReservedHex ==
    << "21", "22", "23", "24", "25", "26", "27", "28", "29", "2B", "2C", "2F",
       "3A", "3B", "3C", "3D", "3E", "3F", "40", "5B", "5C", "5D", "5E",
       "7B", "7C", "7D", "7E" >>

encodeChar(c) ==
    IF c = " " THEN "+"
    ELSE IF \E k \in 1..Len(Reserved) : Ch(Reserved, k) = c
    THEN "%" \o ReservedHex[CHOOSE k \in 1..Len(Reserved) : Ch(Reserved, k) = c]
    ELSE c

RECURSIVE formEncode(_)
formEncode(s) ==
    IF s = "" THEN "" ELSE encodeChar(Ch(s, 1)) \o formEncode(SubSeq(s, 2, Len(s)))

(***************************************************************************)
(* NextRequest and NextResponse.                                           *)
(*   request.cookies : sequence of <<name, value>>, one per name           *)
(*   request.ip      : <<>> (undefined) or <<address>>                     *)
(*   response.headers: set of <<name, value>>                              *)
(***************************************************************************)
\* request.cookies.get(name): <<>> (undefined) or <<cookie>>.  The names in
\* a cookie jar are distinct.
CookiesGet(cookies, name) ==
    IF \E k \in 1..Len(cookies) : cookies[k][1] = name
    THEN LET at == CHOOSE k \in 1..Len(cookies) : cookies[k][1] = name
         IN  << [name |-> name, value |-> cookies[at][2]] >>
    ELSE <<>>

\* new URL(path, request.url) for an absolute path: the origin of the
\* request followed by the path.
NewURL(path, req) == req.protocol \o "//" \o req.host \o path

NextResponseNext == [type |-> "next", headers |-> {}]

NextResponseRedirect(url) == [type |-> "redirect", headers |-> {<<"Location", url>>}]

HeadersSet(resp, name, value) ==
    [resp EXCEPT !.headers = {h \in @ : h[1] # name} \cup {<<name, value>>}]

(***************************************************************************)
(* src/middleware.ts                                                       *)
(***************************************************************************)
publicPaths ==
    << "/login", "/forgot-password", "/reset-password", "/training", "/_next",
       "/favicon.ico", "/api/users/auth/login", "/api/users/auth/refresh" >>

\* Mutant: exact match instead of prefix match.
isPublicPathExact(pathname) ==
    \E k \in 1..Len(publicPaths) : pathname = publicPaths[k]

isPublicPath(pathname) ==
    \E k \in 1..Len(publicPaths) : startsWith(pathname, publicPaths[k])

adminPaths == << "/admin", "/users", "/user-management" >>

\* Mutant: only the first admin prefix is protected.
requiresAdminAccessFirstOnly(pathname) == startsWith(pathname, adminPaths[1])

requiresAdminAccess(pathname) ==
    \E k \in 1..Len(adminPaths) : startsWith(pathname, adminPaths[k])

\* Mutant: the catch clause yields an empty principal instead of null.
getUserFromRequestEmptyOnError(req) ==
    LET userCookie == CookiesGet(req.cookies, "user")
    IN  IF userCookie # <<>>
        THEN LET parsed == JSONParse(userCookie[1].value)
             IN  IF parsed.ok THEN parsed.val ELSE JObj(<<>>)
        ELSE JNull

\* try { cookie ? JSON.parse(cookie.value) : null } catch { null }
getUserFromRequest(req) ==
    LET userCookie == CookiesGet(req.cookies, "user")
    IN  IF userCookie # <<>>
        THEN LET parsed == JSONParse(userCookie[1].value)
             IN  IF parsed.ok THEN parsed.val ELSE JNull
        ELSE JNull

adminRoles == << "system admin", "administrator", "admin" >>

\* user.role?.toLowerCase().includes(role.toLowerCase()) for one role of
\* adminRoles: undefined (falsy) when user.role is nullish, a TypeError when
\* user.role is neither nullish nor a string (it has no toLowerCase).
roleIncludes(user, role) ==
    LET r == GetProp(user, "role")
    IN  IF r.t \in {"undefined", "null"} THEN [threw |-> FALSE, value |-> FALSE]
        ELSE IF r.t # "string" THEN [threw |-> TRUE, value |-> FALSE]
        ELSE [threw |-> FALSE, value |-> includes(toLowerCase(r.s), toLowerCase(role))]

\* adminRoles.some(role => ...): the first callback that throws ends it.
RECURSIVE someAdminRole(_, _)
someAdminRole(user, k) ==
    IF k > Len(adminRoles) THEN [threw |-> FALSE, value |-> FALSE]
    ELSE LET c == roleIncludes(user, adminRoles[k])
         IN  IF c.threw \/ c.value THEN c ELSE someAdminRole(user, k + 1)

\* Mutant: the role is compared without lower-casing it.
hasAdminAccessCaseSensitive(user) ==
    LET r == GetProp(user, "role")
    IN  IF r.t \in {"undefined", "null"} THEN [threw |-> FALSE, value |-> FALSE]
        ELSE IF r.t # "string" THEN [threw |-> TRUE, value |-> FALSE]
        ELSE [threw |-> FALSE,
              value |-> \E k \in 1..Len(adminRoles) : includes(r.s, toLowerCase(adminRoles[k]))]

hasAdminAccess(user) == someAdminRole(user, 1)

\* Mutant: one header is left out.
securityHeadersWithoutXss ==
    << <<"X-Frame-Options", "DENY">>,
       <<"X-Content-Type-Options", "nosniff">>,
       <<"Referrer-Policy", "strict-origin-when-cross-origin">> >>

securityHeaders ==
    << <<"X-Frame-Options", "DENY">>,
       <<"X-Content-Type-Options", "nosniff">>,
       <<"Referrer-Policy", "strict-origin-when-cross-origin">>,
       <<"X-XSS-Protection", "1; mode=block">> >>

RECURSIVE setSecurityHeaders(_, _)
setSecurityHeaders(resp, k) ==
    IF k > Len(securityHeaders) THEN resp
    ELSE setSecurityHeaders(HeadersSet(resp, securityHeaders[k][1], securityHeaders[k][2]), k + 1)

requiresHttpsRedirect(req, env) ==
    env = "production" /\ ~includes(req.protocol, "https")

\* Mutant: the query string is dropped.
httpsUrlWithoutSearch(req) == "https://" \o req.host \o req.pathname

httpsUrl(req) == "https://" \o req.host \o req.pathname \o req.search

\* Mutant: no fallback for a missing client address.
logLineNoFallback(req, now) ==
    now \o " - " \o req.method \o " " \o req.pathname \o " - "
        \o (IF req.ip # <<>> THEN req.ip[1] ELSE "undefined")

logLine(req, now) ==
    now \o " - " \o req.method \o " " \o req.pathname \o " - "
        \o (IF req.ip # <<>> /\ req.ip[1] # "" THEN req.ip[1] ELSE "unknown IP")

\* Mutant: the path is put into the query string as it is.
loginUrlUnencoded(req) == NewURL("/login", req) \o "?redirect=" \o req.pathname

loginUrl(req) == NewURL("/login", req) \o "?redirect=" \o formEncode(req.pathname)

dashboardUrl(req) == NewURL("/dashboard", req)

Returned(decision, resp, console, calls) ==
    [completion |-> "return", decision |-> decision, response |-> resp,
     console |-> console, getUserCalls |-> calls]

Thrown(error, console, calls) ==
    [completion |-> "throw", decision |-> error, response |-> [type |-> "none", headers |-> {}],
     console |-> console, getUserCalls |-> calls]

\* The whole of middleware(request): what it returns or throws, the lines it
\* wrote to the console and how often it called getUserFromRequest.
middleware(req, env, now) ==
    IF isPublicPath(req.pathname) THEN Returned("Allow", NextResponseNext, <<>>, 0)
    ELSE
      LET response == setSecurityHeaders(NextResponseNext, 1)
      IN  IF requiresHttpsRedirect(req, env)
          THEN Returned("RedirectHttps", NextResponseRedirect(httpsUrl(req)), <<>>, 0)
          ELSE
            LET console == << logLine(req, now) >>
                user == getUserFromRequest(req)
            IN  IF ~Truthy(user)
                THEN Returned("RedirectLogin", NextResponseRedirect(loginUrl(req)), console, 1)
                ELSE IF requiresAdminAccess(req.pathname)
                THEN LET access == hasAdminAccess(user)
                     IN  IF access.threw THEN Thrown("TypeError", console, 1)
                         ELSE IF ~access.value
                         THEN Returned("RedirectDefault", NextResponseRedirect(dashboardUrl(req)), console, 1)
                         ELSE Returned("AllowWithHeaders", response, console, 1)
                ELSE Returned("AllowWithHeaders", response, console, 1)

\* Mutant: the "." of favicon.ico taken literally.
matcherLiteralDot(pathname) ==
    /\ startsWith(pathname, "/")
    /\ ~At(pathname, 2, "api")
    /\ ~At(pathname, 2, "_next/static")
    /\ ~At(pathname, 2, "_next/image")
    /\ ~At(pathname, 2, "favicon.ico")

\* config.matcher '/((?!api|_next/static|_next/image|favicon.ico).*)': the
\* framework calls middleware() only for a path that is "/" followed by
\* something that does not begin with one of the four alternatives (the "."
\* of favicon.ico is the regular expression's any-character).
matcher(pathname) ==
    /\ startsWith(pathname, "/")
    /\ ~At(pathname, 2, "api")
    /\ ~At(pathname, 2, "_next/static")
    /\ ~At(pathname, 2, "_next/image")
    /\ ~(At(pathname, 2, "favicon") /\ Len(pathname) >= 9 /\ At(pathname, 10, "ico"))

(***************************************************************************)
(* Requests.                                                               *)
(***************************************************************************)
BasePaths ==
    { "/", "/login", "/Login", "/forgot-password", "/reset-password", "/training",
      "/_next", "/_next/static/app.js", "/favicon.ico", "/faviconXico",
      "/api/users/auth/login", "/api/users/auth/refresh", "/api/compliance/due-tasks/7",
      "/admin", "/admin/settings", "/users", "/users/42",
      "/user-management", "/dashboard", "/my%20tasks/a+b" }

RECURSIVE Xs(_)
Xs(n) == IF n = 0 THEN "" ELSE "X" \o Xs(n - 1)

Paths == { b \o Xs(n) : b \in BasePaths, n \in 0..MaxSuffix }

\* Texts of the 'user' cookie that JSON.parse rejects ...
MalformedTexts == { "", "{role:admin}", "{\"role\":\"administrator\"" }

\* ... and texts it accepts.
JsonTexts ==
    { "null", "false", "0", "\"\"", "\"admin\"", "{\"name\":\"bob\"}",
      "{\"role\":\"administrator\"}", "{\"role\":\"ADMINISTRATOR\"}", "{\"role\":\"Admin\"}",
      "{\"role\":\"badminton\"}",
      "{\"role\":\"guest\"}", "{ \"name\": \"amy\", \"role\": \"staff\" }",
      "{\"role\":null}",
      "{\"role\":7}", "{\"role\":0}", "{\"role\":true}",
      "{\"role\":[\"admin\"]}", "{\"role\":{\"name\":\"admin\"}}",
      "{\"role\":\"admin\",\"role\":\"guest\"}" }

CookieJars ==
    { <<>>, << <<"theme", "dark">> >> }
      \cup { << <<"user", t>> >> : t \in MalformedTexts \cup JsonTexts }
      \cup { << <<"theme", "dark">>, <<"user", "{\"role\":\"admin\"}">> >> }

Protocols == { "http:", "https:" }

Searches == { "", "?tab=2&q=a%20b" }

Methods == { "GET", "POST" }

Ips == { <<>>, << "203.0.113.9" >> }

Instants == { "2025-03-01T09:00:00.000Z", "2025-03-01T09:00:01.500Z" }

Requests ==
    [ method : Methods, protocol : Protocols, host : {"fm.example.com"},
      pathname : Paths, search : Searches, cookies : CookieJars, ip : Ips ]

(***************************************************************************)
(* The state machine.  pc: "idle" (no request), "received" (a request      *)
(* arrived), "done" (middleware() returned or threw), "bypassed" (the      *)
(* matcher kept middleware() out and the request went on to its route).    *)
(***************************************************************************)
Init ==
    /\ NODE_ENV \in {"production", "development"}
    /\ request = <<>>
    /\ pc = "idle"
    /\ result = <<>>

\* A request arrives.
Receive ==
    /\ pc = "idle"
    /\ \E r \in Requests : request' = r
    /\ pc' = "received"
    /\ UNCHANGED <<NODE_ENV, result>>

\* middleware(request) is called and runs to its return or throw.
Middleware ==
    /\ pc = "received"
    /\ \E now \in Instants : result' = middleware(request, NODE_ENV, now)
    /\ pc' = "done"
    /\ UNCHANGED <<NODE_ENV, request>>

\* The framework consults config.matcher and calls middleware() on a match.
MatchedMiddleware ==
    /\ pc = "received"
    /\ matcher(request.pathname)
    /\ Middleware

\* No match: the request goes to its route with no gate decision.
Bypass ==
    /\ pc = "received"
    /\ ~matcher(request.pathname)
    /\ pc' = "bypassed"
    /\ UNCHANGED <<NODE_ENV, request, result>>

\* The response is sent; nothing is kept between requests.
Finish ==
    /\ pc \in {"done", "bypassed"}
    /\ pc' = "idle"
    /\ request' = <<>>
    /\ result' = <<>>
    /\ UNCHANGED NODE_ENV

\* middleware() applied to every request.
Next == Receive \/ Middleware \/ Finish

Spec == Init /\ [][Next]_vars

\* middleware() behind config.matcher, as deployed.
NextRouted == Receive \/ MatchedMiddleware \/ Bypass \/ Finish

SpecRouted == Init /\ [][NextRouted]_vars

(***************************************************************************)
(* Vocabulary of the properties.  The prefixes and header names are        *)
(* written out here as the specification states them, independently of     *)
(* publicPaths, adminPaths and securityHeaders above.                      *)
(***************************************************************************)
GateDecisions == { "Allow", "AllowWithHeaders", "RedirectLogin", "RedirectDefault", "RedirectHttps" }

Redirects == { "RedirectLogin", "RedirectDefault", "RedirectHttps" }

PublicPrefixes ==
    { "/login", "/forgot-password", "/reset-password", "/training", "/_next",
      "/favicon.ico", "/api/users/auth/login", "/api/users/auth/refresh" }

AdminPrefixes == { "/admin", "/users", "/user-management" }

SecurityHeaderNames ==
    { "X-Frame-Options", "X-Content-Type-Options", "Referrer-Policy", "X-XSS-Protection" }

Done == pc = "done"

PathIsPublic == \E p \in PublicPrefixes : startsWith(request.pathname, p)

PathIsAdmin == ~PathIsPublic /\ \E p \in AdminPrefixes : startsWith(request.pathname, p)

\* Production deployment and a request that came over plaintext HTTP.
PlaintextInProduction == NODE_ENV = "production" /\ request.protocol = "http:"

HasUserCookie == \E k \in 1..Len(request.cookies) : request.cookies[k][1] = "user"

UserCookieText == CookiesGet(request.cookies, "user")[1].value

CookieParses == HasUserCookie /\ JSONParse(UserCookieText).ok

Principal == JSONParse(UserCookieText).val

Role == GetProp(Principal, "role")

RoleIsString == Role.t = "string"

\* The request as it would be without any 'user' cookie.
WithoutUserCookie ==
    [request EXCEPT !.cookies = SelectSeq(@, LAMBDA c : c[1] # "user")]

Origin == request.protocol \o "//" \o request.host

Location == CHOOSE loc \in { h[2] : h \in { g \in result.response.headers : g[1] = "Location" } } : TRUE

HasLocation == \E h \in result.response.headers : h[1] = "Location"

SecurityHeadersOn == { h \in result.response.headers : h[1] \in SecurityHeaderNames }

\* What URLSearchParams.get reads back from a serialised value.
RECURSIVE formDecode(_)
formDecode(s) ==
    IF s = "" THEN ""
    ELSE IF Ch(s, 1) = "+" THEN " " \o formDecode(SubSeq(s, 2, Len(s)))
    ELSE IF Ch(s, 1) = "%" /\ Len(s) >= 3 /\ \E k \in 1..Len(ReservedHex) : ReservedHex[k] = SubSeq(s, 2, 3)
    THEN Ch(Reserved, CHOOSE k \in 1..Len(ReservedHex) : ReservedHex[k] = SubSeq(s, 2, 3))
            \o formDecode(SubSeq(s, 4, Len(s)))
    ELSE Ch(s, 1) \o formDecode(SubSeq(s, 2, Len(s)))

LoginPrefix == Origin \o "/login?redirect="

\* The serialised value of the redirect parameter of the login redirect.
RedirectParam == SubSeq(Location, Len(LoginPrefix) + 1, Len(Location))

RedirectsToLoginWithPath ==
    /\ result.completion = "return"
    /\ result.decision = "RedirectLogin"
    /\ result.response.type = "redirect"
    /\ HasLocation
    /\ startsWith(Location, LoginPrefix)
    /\ ~includes(RedirectParam, "&")
    /\ formDecode(RedirectParam) = request.pathname
    /\ (request.pathname = "/users/42" => Location = Origin \o "/login?redirect=%2Fusers%2F42")

(***************************************************************************)
(* C1.  Every call of middleware() ends in one of the five gate decisions  *)
(* and never raises an exception, whatever the path, scheme, deployment    *)
(* mode and 'user' cookie.  (Refuted: a principal whose role is neither    *)
(* nullish nor a string raises a TypeError on an admin path.)              *)
(***************************************************************************)
C1_NeverRaises ==
    Done => result.completion = "return" /\ result.decision \in GateDecisions

(***************************************************************************)
(* C2.  A path that starts with one of the public prefixes is public and   *)
(* gets Allow: a plain pass-through without security headers or redirect,  *)
(* whatever the cookie, the scheme and the deployment mode.                *)
(***************************************************************************)
C2_PublicPathsAllowed ==
    Done /\ PathIsPublic =>
        /\ isPublicPath(request.pathname)
        /\ result.completion = "return"
        /\ result.decision = "Allow"
        /\ result.response = [type |-> "next", headers |-> {}]

C2_Witness ==
    /\ Done
    /\ request.pathname = "/loginX"
    /\ PlaintextInProduction
    /\ CookieParses /\ RoleIsString /\ Role.s = "guest"
    /\ result.decision = "Allow"

(***************************************************************************)
(* C3 as stated.  Without a 'user' cookie, every non-public path is        *)
(* redirected to /login with redirect = the request path.                  *)
(***************************************************************************)
C3_Original ==
    Done /\ ~HasUserCookie /\ ~PathIsPublic => RedirectsToLoginWithPath

(***************************************************************************)
(* C3 amended.  Without a 'user' cookie, every non-public path is          *)
(* redirected to /login with redirect = the request path, unless the       *)
(* deployment is production and the request came over plaintext HTTP.      *)
(***************************************************************************)
C3_NoCookieRedirectsToLogin ==
    Done /\ ~HasUserCookie /\ ~PathIsPublic /\ ~PlaintextInProduction => RedirectsToLoginWithPath

C3_Witness ==
    /\ Done
    /\ ~HasUserCookie
    /\ request.pathname = "/users/42"
    /\ ~PlaintextInProduction
    /\ result.decision = "RedirectLogin"
    /\ Location = Origin \o "/login?redirect=%2Fusers%2F42"

(***************************************************************************)
(* C4.  A 'user' cookie that is not JSON gives exactly the outcome of the  *)
(* same request without a 'user' cookie (decision, redirect target,        *)
(* headers), and the parse failure never propagates.                       *)
(***************************************************************************)
C4_MalformedAsAbsent ==
    Done /\ HasUserCookie /\ ~CookieParses =>
        /\ result.completion = "return"
        /\ \E now \in Instants : result = middleware(WithoutUserCookie, NODE_ENV, now)

C4_Witness ==
    /\ Done
    /\ HasUserCookie /\ ~CookieParses
    /\ UserCookieText = "{\"role\":\"administrator\""
    /\ request.pathname = "/admin"
    /\ result.decision = "RedirectLogin"

(***************************************************************************)
(* C5 as stated.  On an admin path with a JSON credential, the role        *)
(* "administrator" in any letter case (or "Admin") gets AllowWithHeaders,  *)
(* and the roles "guest" and "staff" get RedirectDefault to /dashboard.    *)
(***************************************************************************)
AdminRoleCase ==
    CookieParses /\ RoleIsString /\ (toLowerCase(Role.s) = "administrator" \/ Role.s = "Admin")

PlainRoleCase == CookieParses /\ RoleIsString /\ Role.s \in {"guest", "staff"}

AllowedWithHeaders ==
    /\ result.completion = "return"
    /\ result.decision = "AllowWithHeaders"
    /\ result.response.type = "next"

RedirectedToDashboard ==
    /\ result.completion = "return"
    /\ result.decision = "RedirectDefault"
    /\ result.response.type = "redirect"
    /\ HasLocation
    /\ Location = Origin \o "/dashboard"

C5_Original ==
    Done /\ PathIsAdmin =>
        /\ (AdminRoleCase => AllowedWithHeaders)
        /\ (PlainRoleCase => RedirectedToDashboard)

(***************************************************************************)
(* C5 amended.  The same, for every request that is not a plaintext-HTTP   *)
(* request in production (which is redirected to https instead).           *)
(***************************************************************************)
C5_RoleDecidesAdminPaths ==
    Done /\ PathIsAdmin /\ ~PlaintextInProduction =>
        /\ (AdminRoleCase => AllowedWithHeaders)
        /\ (PlainRoleCase => RedirectedToDashboard)

C5_Witness ==
    /\ Done
    /\ request.pathname = "/users"
    /\ ~PlaintextInProduction
    /\ CookieParses /\ RoleIsString /\ Role.s = "ADMINISTRATOR"
    /\ result.decision = "AllowWithHeaders"

(***************************************************************************)
(* C6 as stated.  In production every plaintext-HTTP request is redirected *)
(* to https://host+path+query before any identity check: getUserFromRequest*)
(* is not evaluated.                                                       *)
(***************************************************************************)
RedirectedToHttps ==
    /\ result.completion = "return"
    /\ result.decision = "RedirectHttps"
    /\ result.response.type = "redirect"
    /\ HasLocation
    /\ Location = "https://" \o request.host \o request.pathname \o request.search
    /\ result.getUserCalls = 0

C6_Original == Done /\ PlaintextInProduction => RedirectedToHttps

(***************************************************************************)
(* C6 amended.  In production every plaintext-HTTP request for a path that *)
(* is not public is redirected to https://host+path+query before any       *)
(* identity check; a public path is allowed over plaintext HTTP.           *)
(***************************************************************************)
C6_HttpsBeforeIdentity ==
    Done /\ PlaintextInProduction =>
        IF PathIsPublic THEN result.decision = "Allow" /\ result.getUserCalls = 0
        ELSE RedirectedToHttps

C6_Witness ==
    /\ Done
    /\ PlaintextInProduction
    /\ request.pathname = "/admin/settings"
    /\ request.search # ""
    /\ CookieParses /\ RoleIsString /\ Role.s = "Admin"
    /\ result.decision = "RedirectHttps"

(***************************************************************************)
(* C7 as stated.  Five security headers are on every AllowWithHeaders      *)
(* response, and none is on an Allow or redirect response.                 *)
(***************************************************************************)
C7_Original ==
    Done /\ result.completion = "return" =>
        /\ (result.decision = "AllowWithHeaders" => Cardinality(result.response.headers) = 5)
        /\ (result.decision \in {"Allow"} \cup Redirects => SecurityHeadersOn = {})

(***************************************************************************)
(* C7 amended.  The four security headers X-Frame-Options: DENY,           *)
(* X-Content-Type-Options: nosniff, Referrer-Policy:                       *)
(* strict-origin-when-cross-origin and X-XSS-Protection: 1; mode=block are *)
(* on every AllowWithHeaders response (and no fifth one), and none of them *)
(* is on an Allow or redirect response.                                    *)
(***************************************************************************)
C7_FourSecurityHeaders ==
    Done /\ result.completion = "return" =>
        /\ (result.decision = "AllowWithHeaders" =>
               result.response.headers =
                   { <<"X-Frame-Options", "DENY">>,
                     <<"X-Content-Type-Options", "nosniff">>,
                     <<"Referrer-Policy", "strict-origin-when-cross-origin">>,
                     <<"X-XSS-Protection", "1; mode=block">> })
        /\ (result.decision \in {"Allow"} \cup Redirects => SecurityHeadersOn = {})

C7_Witness ==
    /\ Done
    /\ result.decision = "AllowWithHeaders"
    /\ Cardinality(SecurityHeadersOn) = 4
    /\ request.pathname = "/dashboard"

(***************************************************************************)
(* C8 as stated.  Every incoming request, whatever its path, is evaluated  *)
(* by middleware(): none goes on to its route without having been gated.   *)
(***************************************************************************)
C8_Original == pc \in {"done", "bypassed"} => pc = "done"

(***************************************************************************)
(* C8 amended.  A request is evaluated by middleware() exactly when its    *)
(* path does not begin with /api, /_next/static, /_next/image or /favicon  *)
(* + any one character + ico; a request on one of those prefixes goes on   *)
(* to its route ungated.  Of the evaluated requests, a non-public path is  *)
(* passed through only with a 'user' cookie that parses to a truthy value. *)
(***************************************************************************)
ExcludedByMatcher ==
    \/ \E p \in {"/api", "/_next/static", "/_next/image"} : startsWith(request.pathname, p)
    \/ /\ startsWith(request.pathname, "/favicon")
       /\ Len(request.pathname) >= Len("/favicon.ico")
       /\ SubSeq(request.pathname, Len("/favicon.") + 1, Len("/favicon.ico")) = "ico"

C8_GatedUnlessExcluded ==
    /\ (pc = "bypassed" => ExcludedByMatcher)
    /\ (pc = "done" => ~ExcludedByMatcher)
    /\ (pc = "done" /\ result.response.type = "next" /\ ~PathIsPublic =>
            CookieParses /\ Truthy(Principal))

C8_Witness ==
    /\ pc = "bypassed"
    /\ request.pathname = "/api/compliance/due-tasks/7"
    /\ ~HasUserCookie

(***************************************************************************)
(* C9 as stated.  Exactly one log line (timestamp, method, path, client    *)
(* address) is written for every request middleware() handles, whatever    *)
(* the outcome.                                                            *)
(***************************************************************************)
ClientAddress == IF request.ip = <<>> THEN "unknown IP" ELSE request.ip[1]

OneLogLine ==
    /\ Len(result.console) = 1
    /\ \E now \in Instants :
          result.console[1] =
              now \o " - " \o request.method \o " " \o request.pathname \o " - " \o ClientAddress

C9_Original == Done => OneLogLine

(***************************************************************************)
(* C9 amended.  Exactly one log line (timestamp, method, path, client      *)
(* address) is written for every request that is neither for a public path *)
(* nor redirected to https; for those two kinds of request none is.        *)
(***************************************************************************)
C9_LogAfterHttpsCheck ==
    Done => IF PathIsPublic \/ PlaintextInProduction THEN result.console = <<>> ELSE OneLogLine

C9_Witness ==
    /\ Done
    /\ ~PathIsPublic /\ ~PlaintextInProduction
    /\ request.ip = <<>>
    /\ request.method = "POST"
    /\ Len(result.console) = 1
    /\ result.decision = "RedirectDefault"

(***************************************************************************)
(* C10.  middleware() returns AllowWithHeaders only if the 'user' cookie   *)
(* is present and parses to a truthy value and, on an admin path, only if  *)
(* the role is a string whose lower-cased form contains "admin".  Where    *)
(* the identity check is reached, a cookie parsing to null, false, 0 or "" *)
(* gets RedirectLogin, and a principal without a role field never passes   *)
(* an admin path but passes an ordinary protected path.                    *)
(***************************************************************************)
PrincipalIsFalsy ==
    \/ Principal = JNull
    \/ Principal = JBool(FALSE)
    \/ Principal = JNum(0)
    \/ Principal = JStr("")

====
